---- MODULE Spec2Model ----
(***************************************************************************)
(* Chicago Taxi fare app (src/app.py): a Streamlit script that loads a     *)
(* pickled online-regression pipeline and two "gold" statistics tables     *)
(* once per process (st.cache_resource), then, on every script run of      *)
(* every session, renders a fare form, predicts on submit and draws a      *)
(* dashboard.                                                              *)
(*                                                                         *)
(* The pipeline object itself (FeatureEncoder + OnlineRegressor) is only   *)
(* unpickled by app.py; its operations are modelled from sections 3-7 of   *)
(* the specification.  Float quantities are fixed-point integers in units  *)
(* of 1/SCALE.                                                             *)
(***************************************************************************)
EXTENDS Integers, Sequences, FiniteSets, TLC

(***************************************************************************)
(* Bounds of the model                                                     *)
(***************************************************************************)
NSessions == 2        \* browser sessions sharing the one server process
MaxLoads == 3         \* executions of load_resources' body that are tracked
MaxTrain == 2         \* Train calls applied to one core artifact
PartialLastHour == 11 \* last hour present in the "partial" hourly table

(***************************************************************************)
(* Fixed-point arithmetic                                                  *)
(***************************************************************************)
SCALE == 100

Abs(v) == IF v < 0 THEN -v ELSE v

RECURSIVE SqrtSearch(_, _, _)
SqrtSearch(n, lo, hi) ==
    IF lo >= hi THEN lo
    ELSE LET mid == (lo + hi + 1) \div 2
         IN  IF mid * mid <= n THEN SqrtSearch(n, mid, hi)
                               ELSE SqrtSearch(n, lo, mid - 1)

\* floor of the square root of a natural number below 2^31
ISqrt(n) == SqrtSearch(n, 0, 46340)

\* sqrt of a fixed-point quantity, as a fixed-point quantity
FxSqrt(v) == ISqrt(v * SCALE)

\* float(v) for an integer widget value (app.py:102-105)
ToFloat(v) == v * SCALE

(***************************************************************************)
(* RawFeatures and their validation (spec 3, 7)                            *)
(***************************************************************************)
Fields == {"km", "min", "hour", "day"}

HourMin == 0
HourMax == 23
HourDefault == 14

DayNames == <<"Monday", "Tuesday", "Wednesday", "Thursday",
              "Friday", "Saturday", "Sunday">>

RawOf(km, mn, hour, day) ==
    [km |-> km, min |-> mn, hour |-> hour, day |-> day, finite |-> TRUE]

\* MalformedInput test of Predict/Train: every field finite, hour an integer
\* in [0,23], day an integer in [0,6]
Valid(x) ==
    /\ x.finite
    /\ x.hour % SCALE = 0
    /\ x.hour >= ToFloat(0) /\ x.hour <= ToFloat(23)
    /\ x.day % SCALE = 0
    /\ x.day >= ToFloat(0) /\ x.day <= ToFloat(6)

(***************************************************************************)
(* FeatureEncoder (spec 4.1): per-field running statistics (Welford)       *)
(***************************************************************************)
EPS == 1

EmptyStats == [n |-> 0, mean |-> 0, m2 |-> 0]

\* update for one field: count-based incremental mean and sum of squared
\* deviations
UpdateField(st, v) ==
    LET n1 == st.n + 1
        d == v - st.mean
        mean1 == st.mean + d \div n1
    IN  [n |-> n1, mean |-> mean1, m2 |-> st.m2 + (d * (v - mean1)) \div SCALE]

update(enc, x) == [f \in Fields |-> UpdateField(enc[f], x[f])]

Variance(st) == IF st.n = 0 THEN 0 ELSE st.m2 \div st.n

DenomNoEps(st) == FxSqrt(Variance(st))

\* sqrt(running_variance + eps)
Denom(st) == FxSqrt(Variance(st) + EPS)

\* (value - running_mean) / sqrt(running_variance + eps); the raw value
\* before any statistics exist.  ok = FALSE is a division by zero.
TransformField(st, v) ==
    IF st.n = 0 THEN [ok |-> TRUE, v |-> v]
    ELSE IF Denom(st) = 0 THEN [ok |-> FALSE, v |-> 0]
    ELSE [ok |-> TRUE, v |-> ((v - st.mean) * SCALE) \div Denom(st)]

transform(enc, x) == [f \in Fields |-> TransformField(enc[f], x[f])]

(***************************************************************************)
(* OnlineRegressor (spec 4.2)                                              *)
(***************************************************************************)
NewModel(lr) ==
    [enc |-> [f \in Fields |-> EmptyStats],
     w |-> [f \in Fields |-> 0],
     b |-> 0,
     lr |-> lr,
     finite |-> TRUE]

Dot(w, z) ==
    (w["km"] * z["km"].v) \div SCALE + (w["min"] * z["min"].v) \div SCALE
    + (w["hour"] * z["hour"].v) \div SCALE + (w["day"] * z["day"].v) \div SCALE

\* dot product plus intercept; no side effects
predict(m, z) ==
    IF ~m.finite \/ \E f \in Fields : ~z[f].ok
    THEN [ok |-> FALSE, v |-> 0]
    ELSE [ok |-> TRUE, v |-> Dot(m.w, z) + m.b]

fit_one_ascent(m, z, y) ==
    LET p == predict(m, z)
        step == (m.lr * (p.v - y)) \div SCALE
    IN  IF ~p.ok THEN [m EXCEPT !.finite = FALSE]
        ELSE [m EXCEPT !.w = [f \in Fields |-> m.w[f] + (step * z[f].v) \div SCALE],
                       !.b = m.b + step]

\* one gradient step: error = actual_fare - predict(encoded); every weight
\* moves by learning_rate * error * encoded_i, the intercept by
\* learning_rate * error
fit_one(m, z, y) ==
    LET p == predict(m, z)
        step == (m.lr * (y - p.v)) \div SCALE
    IN  IF ~p.ok THEN [m EXCEPT !.finite = FALSE]
        ELSE [m EXCEPT !.w = [f \in Fields |-> m.w[f] + (step * z[f].v) \div SCALE],
                       !.b = m.b + step]

(***************************************************************************)
(* The two request shapes of the core (spec 6)                             *)
(***************************************************************************)
Predict(m, x) ==
    IF ~Valid(x) THEN [status |-> "MalformedInput", v |-> 0]
    ELSE LET p == predict(m, transform(m.enc, x))
         IN  IF p.ok THEN [status |-> "ok", v |-> p.v]
                     ELSE [status |-> "NonFinite", v |-> 0]

\* encoder statistics first, then the transform, then one gradient step
Train(m, x, y) ==
    IF ~Valid(x) THEN m
    ELSE LET enc1 == update(m.enc, x)
         IN  fit_one([m EXCEPT !.enc = enc1], transform(enc1, x), y)

TrainStatus(x) == IF Valid(x) THEN "ok" ELSE "MalformedInput"

(***************************************************************************)
(* The form of tab 1 (app.py:78-106)                                       *)
(***************************************************************************)
DistanceDefault == 5
DurationDefault == 15

HourSliderWide == HourMin .. (HourMax + 1)

\* st.slider("Hour of Day (0-23)", 0, 23, 14): the values the widget yields
HourSlider == HourMin .. HourMax

\* the options of st.selectbox("Day of Week", [...])
DayOptions == {DayNames[i] : i \in 1 .. Len(DayNames)}

day_map ==
    [Monday |-> 0, Tuesday |-> 1, Wednesday |-> 2, Thursday |-> 3,
     Friday |-> 4, Saturday |-> 5, Sunday |-> 6]

\* every widget state a submitted form can carry (distance and duration
\* left at their defaults)
SubmittedForms ==
    {[submitted |-> TRUE, distance |-> DistanceDefault,
      duration |-> DurationDefault, hour |-> h, day_text |-> d] :
        h \in HourSlider, d \in DayOptions}

\* a rerun that is not a submission of trip_form
PlainRerun ==
    [submitted |-> FALSE, distance |-> DistanceDefault,
     duration |-> DurationDefault, hour |-> HourDefault, day_text |-> "Monday"]

\* x_input of the submitted handler
XInput(f) ==
    RawOf(ToFloat(f.distance), ToFloat(f.duration), ToFloat(f.hour),
          ToFloat(day_map[f.day_text]))

\* the method the submitted handler invokes on the cached pipeline
ModelMethodLearn == "learn_one"

ModelMethod == "predict_one"

(***************************************************************************)
(* Gold tables and the resources load_resources returns (app.py:27-55)     *)
(***************************************************************************)
HourCols == {"Hour", "Avg_Fare"}
DayCols == {"Day", "Total_Trips"}

\* a DataFrame: its column names and the keys of its rows; None is not a
\* DataFrame
Frame(cols, rows) == [none |-> FALSE, cols |-> cols, rows |-> rows]
NoneFrame == [none |-> TRUE, cols |-> {}, rows |-> {}]
\* pd.DataFrame()
EmptyFrame == Frame({}, {})

\* DataFrame.empty: some axis has length 0
IsEmpty(df) == df.cols = {} \/ df.rows = {}

FullHourFrame == Frame(HourCols, HourMin .. HourMax)
FullDayFrame == Frame(DayCols, 0 .. 6)

\* gold_stats_hour.csv: header only, some hours, all hours, all hours
\* without the Avg_Fare column
HourFrames ==
    {Frame(HourCols, {}), Frame(HourCols, HourMin .. PartialLastHour),
     FullHourFrame, Frame({"Hour"}, HourMin .. HourMax)}

\* gold_stats_day.csv: header only, all days, all days without Total_Trips
DayFrames ==
    {Frame(DayCols, {}), FullDayFrame, Frame({"Day"}, 0 .. 6)}

\* the bucket: unreadable, or the two CSV files it serves (one of them as
\* it should be)
Buckets ==
    {[readable |-> FALSE, hour |-> EmptyFrame, day |-> EmptyFrame]}
    \cup {[readable |-> TRUE, hour |-> h, day |-> FullDayFrame] : h \in HourFrames}
    \cup {[readable |-> TRUE, hour |-> FullHourFrame, day |-> d] : d \in DayFrames}

Resources(model, h, d) == [model |-> model, df_hour |-> h, df_day |-> d]

\* return None, None, None
NoneResources == Resources("None", NoneFrame, NoneFrame)

\* the inner try/except around the two pd.read_csv calls
ReadGold(b) ==
    IF b.readable THEN [ok |-> TRUE, df_hour |-> b.hour, df_day |-> b.day]
                  ELSE [ok |-> FALSE, df_hour |-> EmptyFrame, df_day |-> EmptyFrame]

LearningRate == 1

SampleA == RawOf(ToFloat(5), ToFloat(15), ToFloat(14), ToFloat(2))
SampleB == RawOf(ToFloat(2), ToFloat(9), ToFloat(0), ToFloat(6))

\* what a well-formed pickle can hold: a pipeline as created, or one that
\* has been trained
PickledModels ==
    {NewModel(LearningRate),
     Train(Train(NewModel(LearningRate), SampleA, ToFloat(13)), SampleB, ToFloat(8))}

\* outcomes of open() + pickle.load() on a file that exists: a well-formed
\* artifact loads; a version-mismatched one either fails to unpickle (an
\* exception other than FileNotFoundError) or unpickles into an object
PickleOutcomes(f) ==
    IF f = "valid" THEN {"valid"} ELSE {"raise", "invalid"}

(***************************************************************************)
(* State                                                                   *)
(***************************************************************************)
VARIABLES
    file,       \* modelo_taxi_fare.pkl on disk: "absent", "valid", "mismatch"
    bucket,     \* the gold CSV files in the bucket
    cache,      \* st.cache_resource entry of load_resources
    loads,      \* how often the body of load_resources has executed
    artifact,   \* state of the one cached pipeline object
    atLoad,     \* state of that object when it was unpickled
    committed,  \* states of the object between complete updates
    writers,    \* sessions inside a learn_one on the object
    pc,         \* per session: position of its script run
    form,       \* per session: the widget state of the current run
    res,        \* per session: model, df_hour, df_day of the current run
    log,        \* per session: what the current run has done, in order
    zed,        \* per session: encoded features handed to the regressor
    seen,       \* per session: encoder state and weights its call has read
    coreModel,  \* an artifact driven through the core's Predict/Train
    nTrain,     \* Train calls applied to coreModel
    lastCall    \* the latest Predict/Train request on coreModel

appVars == <<file, bucket, cache, loads, artifact, atLoad, committed, writers,
             pc, form, res, log, zed, seen>>
coreVars == <<coreModel, nTrain, lastCall>>
vars == <<file, bucket, cache, loads, artifact, atLoad, committed, writers,
          pc, form, res, log, zed, seen, coreModel, nTrain, lastCall>>

Sessions == 1 .. NSessions

Has(l, e) == \E i \in DOMAIN l : l[i] = e
Count(l, e) == Cardinality({i \in DOMAIN l : l[i] = e})
Pos(l, e) == CHOOSE i \in DOMAIN l : l[i] = e

SetMin(S) == CHOOSE v \in S : \A u \in S : v <= u
SetMax(S) == CHOOSE v \in S : \A u \in S : v >= u

\* the submissions the sessions try: the lower end of the slider with the
\* first option of the selectbox, the upper end with the last
TriedForms ==
    {f \in SubmittedForms :
        \/ f.hour = SetMin(HourSlider) /\ f.day_text = DayNames[1]
        \/ f.hour = SetMax(HourSlider) /\ f.day_text = DayNames[Len(DayNames)]}

NoCall == [op |-> "none", src |-> "none", x |-> SampleA, y |-> 0,
           status |-> "none", encoded |-> FALSE, before |-> 0, after |-> 0]

NoSeen == [enc |-> <<>>, wb |-> <<>>]
NoZed == [f \in Fields |-> [ok |-> TRUE, v |-> 0]]

AppInit ==
    /\ file \in {"absent", "valid", "mismatch"}
    /\ bucket \in Buckets
    /\ cache = [set |-> FALSE, value |-> NoneResources]
    /\ loads = 0
    /\ artifact = NewModel(LearningRate)
    /\ atLoad = NewModel(LearningRate)
    /\ committed = {}
    /\ writers = {}
    /\ pc = [s \in Sessions |-> "idle"]
    /\ form = [s \in Sessions |-> PlainRerun]
    /\ res = [s \in Sessions |-> NoneResources]
    /\ log = [s \in Sessions |-> <<>>]
    /\ zed = [s \in Sessions |-> NoZed]
    /\ seen = [s \in Sessions |-> NoSeen]

CoreIdle ==
    /\ coreModel = NewModel(LearningRate)
    /\ nTrain = 0
    /\ lastCall = NoCall

Init == AppInit /\ CoreIdle

(***************************************************************************)
(* One script run of one session (app.py:58-165).  A run touches shared    *)
(* state at three places: the cache entry (line 58) and the pipeline       *)
(* object (line 110, two stages).  The statements between them only touch  *)
(* the run's own variables and belong to the step that precedes them.      *)
(***************************************************************************)
\* df_hour[df_hour['Hour'] == hour]['Avg_Fare'].values[0] finds a value
LookupOk(df, hour) == HourCols \subseteq df.cols /\ hour \in df.rows

\* lines 134-165: the warning when a table is empty; otherwise the KPIs and
\* charts, whose column accesses raise KeyError, uncaught, on a table without
\* the expected columns
DashboardEvents(h, d) ==
    IF IsEmpty(h) \/ IsEmpty(d) THEN <<"dash_warning">>
    ELSE IF HourCols \subseteq h.cols /\ DayCols \subseteq d.cols
    THEN <<"kpis", "charts">>
    ELSE <<"dash_exception">>

HandlerLookupFirst(df, hour) ==
    IF IsEmpty(df) THEN <<"estimate">>
    ELSE IF LookupOk(df, hour) THEN <<"lookup", "estimate", "metrics">>
    ELSE <<"lookup", "prediction_error">>

\* lines 112-129 once predict_one has returned: the estimate, then, with a
\* non-empty hourly table, the lookup and the two metrics, or the message of
\* the except clause when the lookup raises
HandlerAfterCall(df, hour) ==
    <<"estimate">>
    \o (IF IsEmpty(df) THEN <<>>
        ELSE IF LookupOk(df, hour) THEN <<"lookup", "metrics">>
        ELSE <<"lookup", "prediction_error">>)

\* lines 61-64
HaltEvents == <<"critical_error", "warning", "stop">>

\* lines 58-91 and, when the form was not submitted, 134-165: the run from
\* the value r that load_resources returned, having logged lg so far
AfterLoad(s, r, lg) ==
    /\ res' = [res EXCEPT ![s] = r]
    /\ IF r.model = "None"
       THEN /\ log' = [log EXCEPT ![s] = lg \o HaltEvents]
            /\ pc' = [pc EXCEPT ![s] = "idle"]
            /\ form' = form
       ELSE \E f \in TriedForms \cup {PlainRerun} :
              /\ form' = [form EXCEPT ![s] = f]
              /\ IF f.submitted
                 THEN /\ log' = [log EXCEPT ![s] = lg \o <<"form">>]
                      /\ pc' = [pc EXCEPT ![s] = "transform"]
                 ELSE /\ log' = [log EXCEPT ![s] =
                                   lg \o <<"form">> \o DashboardEvents(r.df_hour, r.df_day)]
                      /\ pc' = [pc EXCEPT ![s] = "idle"]

\* a widget interaction or page load starts a run of the script
Rerun(s) ==
    /\ pc[s] = "idle"
    /\ pc' = [pc EXCEPT ![s] = "load"]
    /\ log' = [log EXCEPT ![s] = <<>>]
    /\ res' = [res EXCEPT ![s] = NoneResources]
    /\ form' = [form EXCEPT ![s] = PlainRerun]
    /\ seen' = [seen EXCEPT ![s] = NoSeen]
    /\ UNCHANGED <<file, bucket, cache, loads, artifact, atLoad, committed, writers, zed>>
    /\ UNCHANGED coreVars

\* line 58, the entry is cached: the body is not executed.  (st.cache_resource
\* looks an entry up and computes a missing one under one lock, so each call
\* of load_resources is one step.)
LoadCached(s) ==
    /\ pc[s] = "load"
    /\ cache.set
    /\ AfterLoad(s, cache.value, log[s])
    /\ UNCHANGED <<file, bucket, cache, loads, artifact, atLoad, committed, writers,
                   zed, seen>>
    /\ UNCHANGED coreVars

\* line 58, no entry, open() raises FileNotFoundError: None, None, None is
\* returned and cached
LoadAbsent(s) ==
    /\ pc[s] = "load"
    /\ ~cache.set
    /\ loads < MaxLoads
    /\ file = "absent"
    /\ loads' = loads + 1
    /\ cache' = [set |-> TRUE, value |-> NoneResources]
    /\ AfterLoad(s, NoneResources, Append(log[s], "load_body"))
    /\ UNCHANGED <<file, bucket, artifact, atLoad, committed, writers, zed, seen>>
    /\ UNCHANGED coreVars

\* line 58, no entry, pickle.load raises: no except clause matches, nothing
\* is cached and the run ends with the exception
LoadRaises(s) ==
    /\ pc[s] = "load"
    /\ ~cache.set
    /\ loads < MaxLoads
    /\ file # "absent"
    /\ "raise" \in PickleOutcomes(file)
    /\ loads' = loads + 1
    /\ log' = [log EXCEPT ![s] = @ \o <<"load_body", "load_exception">>]
    /\ pc' = [pc EXCEPT ![s] = "idle"]
    /\ UNCHANGED <<file, bucket, cache, artifact, atLoad, committed, writers,
                   form, res, zed, seen>>
    /\ UNCHANGED coreVars

\* line 58, no entry, pickle.load returns an object: the gold tables are read
\* (or replaced by empty frames) and the triple is returned and cached
LoadObject(s) ==
    /\ pc[s] = "load"
    /\ ~cache.set
    /\ loads < MaxLoads
    /\ file # "absent"
    /\ \E kind \in PickleOutcomes(file) \ {"raise"}, m \in PickledModels :
          LET g == ReadGold(bucket)
              r == Resources(kind, g.df_hour, g.df_day)
          IN  /\ cache' = [set |-> TRUE, value |-> r]
              /\ artifact' = m
              /\ atLoad' = m
              /\ committed' = {m}
              /\ AfterLoad(s, r, log[s] \o <<"load_body",
                                            IF g.ok THEN "toast" ELSE "bucket_error">>)
    /\ loads' = loads + 1
    /\ UNCHANGED <<file, bucket, writers, zed, seen>>
    /\ UNCHANGED coreVars

\* the target a learn_one call would be given
TrainTarget == ToFloat(13)

\* line 110, first stage of the pipeline call: the input is validated and
\* encoded against the object's encoder state (learn_one updates that state
\* first).  A rejected input ends in the except clause of line 128, and the
\* run goes on to the dashboard.
PipelineEncode(s) ==
    /\ pc[s] = "transform"
    /\ LET x == XInput(form[s])
       IN  IF ~Valid(x)
           THEN /\ log' = [log EXCEPT ![s] =
                             @ \o <<"model_call", ModelMethod, "prediction_error">>
                               \o DashboardEvents(res[s].df_hour, res[s].df_day)]
                /\ pc' = [pc EXCEPT ![s] = "idle"]
                /\ UNCHANGED <<artifact, writers, zed, seen>>
           ELSE /\ log' = [log EXCEPT ![s] = @ \o <<"model_call", ModelMethod>>]
                /\ pc' = [pc EXCEPT ![s] = "regress"]
                /\ artifact' = IF ModelMethod = "predict_one" THEN artifact
                               ELSE [artifact EXCEPT !.enc = update(artifact.enc, x)]
                /\ writers' = IF ModelMethod = "predict_one" THEN writers
                              ELSE writers \cup {s}
                /\ zed' = [zed EXCEPT ![s] = transform(artifact'.enc, x)]
                /\ seen' = [seen EXCEPT ![s].enc = <<artifact'.enc>>]
    /\ UNCHANGED <<file, bucket, cache, loads, atLoad, committed, form, res>>
    /\ UNCHANGED coreVars

\* line 110, second stage of the pipeline call, then lines 112-129 and the
\* dashboard.  A well-formed pipeline returns its prediction; what a
\* mismatched object does is not known: it returns or raises.
PipelineRegress(s) ==
    /\ pc[s] = "regress"
    /\ \E returned \in (IF res[s].model = "invalid" THEN BOOLEAN
                        ELSE {predict(artifact, zed[s]).ok}) :
          log' = [log EXCEPT ![s] =
                    (IF returned
                     THEN @ \o <<"predict_returned">>
                            \o HandlerAfterCall(res[s].df_hour, form[s].hour)
                     ELSE Append(@, "prediction_error"))
                    \o DashboardEvents(res[s].df_hour, res[s].df_day)]
    /\ seen' = [seen EXCEPT ![s].wb = <<[w |-> artifact.w, b |-> artifact.b]>>]
    /\ zed' = [zed EXCEPT ![s] = NoZed]
    /\ artifact' = IF ModelMethod = "predict_one" THEN artifact
                   ELSE fit_one(artifact, zed[s], TrainTarget)
    /\ writers' = writers \ {s}
    /\ committed' = IF ModelMethod # "predict_one" /\ writers' = {}
                    THEN committed \cup {artifact'} ELSE committed
    /\ pc' = [pc EXCEPT ![s] = "idle"]
    /\ UNCHANGED <<file, bucket, cache, loads, atLoad, form, res>>
    /\ UNCHANGED coreVars

\* the operator puts a model file into the app directory while the process
\* runs (what the warning of line 63 asks for)
UploadFile ==
    /\ file = "absent"
    /\ file' \in {"valid", "mismatch"}
    /\ UNCHANGED <<bucket, cache, loads, artifact, atLoad, committed, writers,
                   pc, form, res, log, zed, seen>>
    /\ UNCHANGED coreVars

Next ==
    \/ \E s \in Sessions :
          \/ Rerun(s)
          \/ LoadCached(s)
          \/ LoadAbsent(s)
          \/ LoadRaises(s)
          \/ LoadObject(s)
          \/ PipelineEncode(s)
          \/ PipelineRegress(s)
    \/ UploadFile

Spec == Init /\ [][Next]_vars

(***************************************************************************)
(* The core driven directly through Predict and Train (spec 6), and by the *)
(* form of the app                                                         *)
(***************************************************************************)
LearningRates == {1, 50, 300}

Fares == {ToFloat(0), ToFloat(13)}

SampleC == RawOf(ToFloat(200), ToFloat(300), ToFloat(23), ToFloat(6))

TrainSamples == {SampleA, SampleB}

ValidSamples ==
    {SampleA, SampleB, SampleC,
     RawOf(ToFloat(5), ToFloat(15), ToFloat(0), ToFloat(0)),
     RawOf(ToFloat(5), ToFloat(15), ToFloat(23), ToFloat(2))}

MalformedSamples ==
    {RawOf(ToFloat(5), ToFloat(15), ToFloat(24), ToFloat(2)),
     RawOf(ToFloat(5), ToFloat(15), ToFloat(-1), ToFloat(2)),
     RawOf(ToFloat(5), ToFloat(15), ToFloat(14), ToFloat(7)),
     RawOf(ToFloat(5), ToFloat(15), ToFloat(14) + 50, ToFloat(2)),
     [SampleA EXCEPT !.finite = FALSE]}

ApiInputs == ValidSamples \cup MalformedSamples

CoreInit ==
    /\ AppInit
    /\ file = "valid"
    /\ ~bucket.readable
    /\ coreModel \in {NewModel(lr) : lr \in LearningRates}
    /\ nTrain = 0
    /\ lastCall = NoCall

\* a request and its outcome: encoded tells whether the input reached the
\* encoder; before and after are Predict on the same input around the call
Call(op, src, x, y, status, encoded, before, after) ==
    [op |-> op, src |-> src, x |-> x, y |-> y, status |-> status,
     encoded |-> encoded, before |-> before, after |-> after]

CorePredict ==
    /\ \E x \in ApiInputs :
          LET r == Predict(coreModel, x)
          IN  lastCall' = Call("Predict", "api", x, 0, r.status,
                               r.status # "MalformedInput", r.v, r.v)
    /\ UNCHANGED <<coreModel, nTrain>>
    /\ UNCHANGED appVars

\* the submitted handler of the app as the caller of Predict
FormPredict ==
    /\ \E f \in TriedForms :
          LET r == Predict(coreModel, XInput(f))
          IN  lastCall' = Call("Predict", "form", XInput(f), 0, r.status,
                               r.status # "MalformedInput", r.v, r.v)
    /\ UNCHANGED <<coreModel, nTrain>>
    /\ UNCHANGED appVars

CoreTrain ==
    /\ nTrain < MaxTrain
    /\ \E x \in TrainSamples \cup MalformedSamples, y \in Fares :
          /\ coreModel' = Train(coreModel, x, y)
          /\ nTrain' = IF Valid(x) THEN nTrain + 1 ELSE nTrain
          /\ lastCall' = Call("Train", "api", x, y, TrainStatus(x),
                              coreModel'.enc # coreModel.enc,
                              Predict(coreModel, x).v, Predict(coreModel', x).v)
    /\ UNCHANGED appVars

CoreNext == CorePredict \/ FormPredict \/ CoreTrain

CoreSpec == CoreInit /\ [][CoreNext]_vars

(***************************************************************************)
(* Properties                                                              *)
(***************************************************************************)
InRange(x) ==
    /\ x.hour >= ToFloat(0) /\ x.hour <= ToFloat(23)
    /\ x.day >= ToFloat(0) /\ x.day <= ToFloat(6)

Completed(s) == pc[s] = "idle" /\ log[s] # <<>>

\* C1: a run whose load_resources gave no valid model never renders the
\* form and never calls the model: the form and the model call only appear
\* in runs that hold a valid model.
C1_NoServingWithoutValidModel ==
    \A s \in Sessions :
        (Has(log[s], "form") \/ Has(log[s], "model_call")) => res[s].model = "valid"

\* C2: when reading the gold tables failed, the model is still returned and
\* every completed submission shows its estimate, shows no comparison and
\* reports no prediction error.
C2_StatisticsUnavailableNotFatal ==
    \A s \in Sessions :
        /\ Has(log[s], "bucket_error") => res[s].model # "None"
        /\ (Completed(s) /\ Has(log[s], "model_call") /\ IsEmpty(res[s].df_hour))
              => /\ Has(log[s], "estimate")
                 /\ ~Has(log[s], "metrics")
                 /\ ~Has(log[s], "prediction_error")

\* C3: whatever requests the sessions have made, the encoder state and the
\* weights of the cached object are those it was loaded with, and no run
\* has invoked learn_one.
C3_PredictionReadOnly ==
    /\ artifact.enc = atLoad.enc
    /\ artifact.w = atLoad.w
    /\ artifact.b = atLoad.b
    /\ \A s \in Sessions : ~Has(log[s], "learn_one")

C3_Witness ==
    /\ \A s \in Sessions : Completed(s) /\ Has(log[s], "estimate")
    /\ artifact.b # 0

\* C4: a request with hour 24, hour -1 or day 7 is rejected as
\* MalformedInput without reaching the encoder, hour 0 and 23 and day 0 and
\* 6 are accepted, so every record that reaches the encoder is in range; and
\* every record the form hands over is in range and accepted.
C4_RangeEnforcedByRejection ==
    /\ (lastCall.x.hour \in {ToFloat(24), ToFloat(-1)} \/ lastCall.x.day = ToFloat(7))
          => lastCall.op = "none"
             \/ (lastCall.status = "MalformedInput" /\ ~lastCall.encoded)
    /\ (/\ lastCall.op # "none"
        /\ lastCall.x.finite
        /\ lastCall.x.hour \in {ToFloat(0), ToFloat(23)}
        /\ lastCall.x.day \in {ToFloat(0), ToFloat(2), ToFloat(6)})
          => lastCall.status = "ok" /\ lastCall.encoded
    /\ lastCall.encoded => InRange(lastCall.x)
    /\ lastCall.src = "form" => InRange(lastCall.x) /\ lastCall.status = "ok"

C4_Witness ==
    /\ lastCall.op = "Train"
    /\ lastCall.x.hour = ToFloat(24)
    /\ lastCall.status = "MalformedInput"
    /\ nTrain >= 1

\* C5: the body of load_resources executes at most once in the process, and
\* every run past line 58 holds the cached result.
C5_LoadedOnce ==
    /\ loads <= 1
    /\ \A s \in Sessions : pc[s] \in {"transform", "regress"} => res[s] = cache.value

C7_SingleStepReduction ==
    (lastCall.op = "Train" /\ lastCall.status = "ok")
        => Abs(lastCall.y - lastCall.after) < Abs(lastCall.y - lastCall.before)

\* C7 amended: on a model as created, with a non-zero actual_fare and a
\* learning rate below 2, the prediction moves from 0 to
\* learning_rate * actual_fare, strictly closer to actual_fare (and strictly
\* between 0 and actual_fare when the learning rate is below 1).
C7_FreshModelReduction ==
    (/\ lastCall.op = "Train" /\ lastCall.status = "ok"
     /\ nTrain = 1
     /\ lastCall.y # 0
     /\ coreModel.lr > 0 /\ coreModel.lr < 2 * SCALE)
        => /\ lastCall.before = 0
           /\ lastCall.after = (coreModel.lr * lastCall.y) \div SCALE
           /\ Abs(lastCall.y - lastCall.after) < Abs(lastCall.y - lastCall.before)
           /\ coreModel.lr < SCALE
                 => Abs(lastCall.after) > 0 /\ Abs(lastCall.after) < Abs(lastCall.y)

C7_Witness ==
    /\ lastCall.op = "Train" /\ lastCall.status = "ok"
    /\ nTrain = 1
    /\ lastCall.y = ToFloat(13)
    /\ coreModel.lr = 1
    /\ lastCall.after = 13

\* C8: at most one session is inside an update of the cached object, and
\* the encoder state and weights a session's call has read are those of one
\* committed state of the object.
C8_ReadersSeeCommittedState ==
    /\ Cardinality(writers) <= 1
    /\ \A s \in Sessions :
          (seen[s].enc # <<>> /\ seen[s].wb # <<>>)
              => \E c \in committed :
                    /\ seen[s].enc[1] = c.enc
                    /\ seen[s].wb[1] = [w |-> c.w, b |-> c.b]

C8_Witness ==
    \E s1, s2 \in Sessions :
        /\ s1 # s2
        /\ pc[s1] = "regress"
        /\ pc[s2] = "idle"
        /\ seen[s2].enc # <<>> /\ seen[s2].wb # <<>>
        /\ artifact.b # 0

\* C9: a run past the halt holds a model and two DataFrames, and its
\* dashboard shows KPIs and charts exactly when both tables are non-empty
\* and the warning otherwise.
C9_TablesAndDashboard ==
    \A s \in Sessions :
        /\ Has(log[s], "form")
              => /\ res[s].model # "None"
                 /\ ~res[s].df_hour.none
                 /\ ~res[s].df_day.none
        /\ (Completed(s) /\ Has(log[s], "form"))
              => LET both == ~IsEmpty(res[s].df_hour) /\ ~IsEmpty(res[s].df_day)
                 IN  /\ (Has(log[s], "kpis") /\ Has(log[s], "charts")) <=> both
                     /\ Has(log[s], "dash_warning") <=> ~both

\* C10: once predict_one has returned, the estimate is shown, and shown
\* before the lookup; a failed lookup adds one prediction error, no metrics,
\* and the run still goes on to the dashboard.
C10_EstimateBeforeLookup ==
    \A s \in Sessions :
        Has(log[s], "predict_returned")
            => /\ Has(log[s], "estimate")
               /\ Pos(log[s], "predict_returned") < Pos(log[s], "estimate")
               /\ Has(log[s], "lookup") <=> ~IsEmpty(res[s].df_hour)
               /\ Has(log[s], "lookup") => Pos(log[s], "estimate") < Pos(log[s], "lookup")
               /\ (Has(log[s], "lookup") /\ ~LookupOk(res[s].df_hour, form[s].hour))
                     => /\ Count(log[s], "prediction_error") = 1
                        /\ ~Has(log[s], "metrics")
                        /\ log[s][Len(log[s])] \in {"dash_warning", "charts", "dash_exception"}
               /\ (Has(log[s], "lookup") /\ LookupOk(res[s].df_hour, form[s].hour))
                     => Has(log[s], "metrics") /\ ~Has(log[s], "prediction_error")

C10_Witness ==
    \E s \in Sessions :
        /\ Has(log[s], "predict_returned")
        /\ Has(log[s], "lookup")
        /\ ~LookupOk(res[s].df_hour, form[s].hour)
        /\ HourCols \subseteq res[s].df_hour.cols
        /\ Has(log[s], "estimate")
        /\ Has(log[s], "prediction_error")
====
